---- MODULE Spec2Model ----
(***************************************************************************)
(* Recommendation ranking engine of app.py: calculate_skill_match_score    *)
(* (the skill matcher), sort_recommendations_by_match (the selector) and   *)
(* its callers generate_recommendations_fast and                           *)
(* get_enhanced_default_recommendations.                                   *)
(*                                                                         *)
(* Representation.                                                         *)
(*   - A Python str is a sequence of one-character strings; a list is a    *)
(*     sequence; '' and [] are both <<>>.                                  *)
(*   - A Python dict is a function whose domain is the set of keys that    *)
(*     are present; dict.get(k, default) is Get.  A key whose value is     *)
(*     None behaves as an absent key everywhere the code reads it (every   *)
(*     read goes through .get() and a truth test) in the matcher and the   *)
(*     selector, and is modelled as an absent key (gen.null_fields keeps   *)
(*     such keys for get_enhanced_default_recommendations).  None in place *)
(*     of a whole dict is the value None.                                  *)
(*   - A score is an integer number of tenths of a point, 0..1000, i.e.    *)
(*     exactly the values round(x, 1) can return in [0, 100].  Unrounded   *)
(*     quantities (similarity ratio, per-skill score, percentage) are      *)
(*     exact fractions <<numerator, denominator>>.                         *)
(***************************************************************************)
EXTENDS Integers, Sequences, FiniteSets, TLC

VARIABLES call, ret, user, recommendations, top_recommendations, pc, prev, conc, gen

vars == <<call, ret, user, recommendations, top_recommendations, pc, prev, conc, gen>>

(***************************************************************************)
(* Strings of the synonym table (lines 333-342).                           *)
(***************************************************************************)
s_python == <<"p","y","t","h","o","n">>
s_py == <<"p","y">>
s_python3 == <<"p","y","t","h","o","n","3">>
s_python_programming == <<"p","y","t","h","o","n"," ","p","r","o","g","r","a","m","m","i","n","g">>
s_javascript == <<"j","a","v","a","s","c","r","i","p","t">>
s_js == <<"j","s">>
s_node_js == <<"n","o","d","e",".","j","s">>
s_nodejs == <<"n","o","d","e","j","s">>
s_react == <<"r","e","a","c","t">>
s_angular == <<"a","n","g","u","l","a","r">>
s_vue == <<"v","u","e">>
s_java == <<"j","a","v","a">>
s_java_programming == <<"j","a","v","a"," ","p","r","o","g","r","a","m","m","i","n","g">>
s_core_java == <<"c","o","r","e"," ","j","a","v","a">>
s_advanced_java == <<"a","d","v","a","n","c","e","d"," ","j","a","v","a">>
s_sql == <<"s","q","l">>
s_mysql == <<"m","y","s","q","l">>
s_postgresql == <<"p","o","s","t","g","r","e","s","q","l">>
s_database == <<"d","a","t","a","b","a","s","e">>
s_rdbms == <<"r","d","b","m","s">>
s_machine_learning == <<"m","a","c","h","i","n","e"," ","l","e","a","r","n","i","n","g">>
s_ml == <<"m","l">>
s_ai == <<"a","i">>
s_artificial_intelligence == <<"a","r","t","i","f","i","c","i","a","l"," ","i","n","t","e","l","l","i","g","e","n","c","e">>
s_deep_learning == <<"d","e","e","p"," ","l","e","a","r","n","i","n","g">>
s_data_analysis == <<"d","a","t","a"," ","a","n","a","l","y","s","i","s">>
s_data_science == <<"d","a","t","a"," ","s","c","i","e","n","c","e">>
s_analytics == <<"a","n","a","l","y","t","i","c","s">>
s_statistics == <<"s","t","a","t","i","s","t","i","c","s">>
s_web_development == <<"w","e","b"," ","d","e","v","e","l","o","p","m","e","n","t">>
s_html == <<"h","t","m","l">>
s_css == <<"c","s","s">>
s_frontend == <<"f","r","o","n","t","e","n","d">>
s_backend == <<"b","a","c","k","e","n","d">>
s_communication == <<"c","o","m","m","u","n","i","c","a","t","i","o","n">>
s_english == <<"e","n","g","l","i","s","h">>
s_presentation == <<"p","r","e","s","e","n","t","a","t","i","o","n">>
s_speaking == <<"s","p","e","a","k","i","n","g">>

skill_variations ==
  << <<s_python, <<s_py, s_python3, s_python_programming>>>>,
     <<s_javascript, <<s_js, s_node_js, s_nodejs, s_react, s_angular, s_vue>>>>,
     <<s_java, <<s_java_programming, s_core_java, s_advanced_java>>>>,
     <<s_sql, <<s_mysql, s_postgresql, s_database, s_rdbms>>>>,
     <<s_machine_learning, <<s_ml, s_ai, s_artificial_intelligence, s_deep_learning>>>>,
     <<s_data_analysis, <<s_data_science, s_analytics, s_statistics>>>>,
     <<s_web_development, <<s_html, s_css, s_frontend, s_backend>>>>,
     <<s_communication, <<s_english, s_presentation, s_speaking>>>> >>

(***************************************************************************)
(* str methods used by the matcher.                                        *)
(***************************************************************************)
UpperCase == <<"A","B","C","D","E","F","G","H","I","J","K","L","M",
               "N","O","P","Q","R","S","T","U","V","W","X","Y","Z">>
LowerCase == <<"a","b","c","d","e","f","g","h","i","j","k","l","m",
               "n","o","p","q","r","s","t","u","v","w","x","y","z">>

lower_char(c) ==
  IF \E i \in 1..26 : UpperCase[i] = c
  THEN LowerCase[CHOOSE i \in 1..26 : UpperCase[i] = c]
  ELSE c

lower(s) == [i \in 1..Len(s) |-> lower_char(s[i])]

Whitespace == {" "}

RECURSIVE lstrip(_)
lstrip(s) == IF s # <<>> /\ Head(s) \in Whitespace THEN lstrip(Tail(s)) ELSE s

RECURSIVE rstrip(_)
rstrip(s) ==
  IF s # <<>> /\ s[Len(s)] \in Whitespace
  THEN rstrip(SubSeq(s, 1, Len(s) - 1))
  ELSE s

strip(s) == rstrip(lstrip(s))

\* s.split(sep) for a one-character separator: always at least one piece.
RECURSIVE split(_, _)
split(s, sep) ==
  IF \E i \in 1..Len(s) : s[i] = sep
  THEN LET i == CHOOSE k \in 1..Len(s) :
                  s[k] = sep /\ \A m \in 1..(k - 1) : s[m] # sep
       IN  <<SubSeq(s, 1, i - 1)>> \o split(SubSeq(s, i + 1, Len(s)), sep)
  ELSE <<s>>

\* x in y, for two strings
contains(y, x) ==
  \E i \in 0..(Len(y) - Len(x)) : SubSeq(y, i + 1, i + Len(x)) = x

\* x in lst, for a list
In(x, lst) == \E i \in 1..Len(lst) : lst[i] = x

(***************************************************************************)
(* difflib.SequenceMatcher(None, a, b).ratio(): no junk; the autojunk      *)
(* heuristic needs 200 or more characters and never applies to the skill   *)
(* names here.  Positions are 0-based half-open ranges as in difflib.      *)
(***************************************************************************)
\* length of the common run starting at a[i], b[j], inside [.., ahi) x [.., bhi)
RECURSIVE run_length(_, _, _, _, _, _)
run_length(a, b, i, j, ahi, bhi) ==
  IF i < ahi /\ j < bhi /\ a[i + 1] = b[j + 1]
  THEN 1 + run_length(a, b, i + 1, j + 1, ahi, bhi)
  ELSE 0

\* the longest block; of those the one starting earliest in a; of those the
\* one starting earliest in b.  <<alo, blo, 0>> when nothing matches.
find_longest_match(a, b, alo, ahi, blo, bhi) ==
  LET cand == { <<i, j, run_length(a, b, i, j, ahi, bhi)>> :
                  i \in alo..(ahi - 1), j \in blo..(bhi - 1) }
      blocks == { c \in cand : c[3] > 0 }
  IN  IF blocks = {} THEN <<alo, blo, 0>>
      ELSE CHOOSE c \in blocks :
             \A d \in blocks :
               \/ c[3] > d[3]
               \/ c[3] = d[3] /\ c[1] < d[1]
               \/ c[3] = d[3] /\ c[1] = d[1] /\ c[2] <= d[2]

\* sum of the sizes of get_matching_blocks()
RECURSIVE matches(_, _, _, _, _, _)
matches(a, b, alo, ahi, blo, bhi) ==
  IF alo >= ahi \/ blo >= bhi THEN 0
  ELSE LET m == find_longest_match(a, b, alo, ahi, blo, bhi)
       IN  IF m[3] = 0 THEN 0
           ELSE m[3] + matches(a, b, alo, m[1], blo, m[2])
                     + matches(a, b, m[1] + m[3], ahi, m[2] + m[3], bhi)

\* 2.0 * matches / (len(a) + len(b)), as a fraction; 1.0 when both are empty
ratio(a, b) ==
  IF Len(a) + Len(b) = 0 THEN <<1, 1>>
  ELSE <<2 * matches(a, b, 0, Len(a), 0, Len(b)), Len(a) + Len(b)>>

(***************************************************************************)
(* Exact fractions <<n, d>>, d > 0, for the unrounded float quantities.    *)
(***************************************************************************)
RECURSIVE gcd(_, _)
gcd(x, y) == IF y = 0 THEN x ELSE gcd(y, x % y)

frac(n, d) == LET g == gcd(n, d) IN IF g = 0 THEN <<0, 1>> ELSE <<n \div g, d \div g>>

frac_gt(x, y) == x[1] * y[2] > y[1] * x[2]

\* max(x, y) of Python: y only when it is strictly greater
frac_max(x, y) == IF frac_gt(y, x) THEN y ELSE x

frac_add(x, y) == frac(x[1] * y[2] + y[1] * x[2], x[2] * y[2])

\* round(x, 1) for x = f[1] / f[2] >= 0, in tenths; an exact tie goes to the
\* even tenth
round_1(f) ==
  LET n   == f[1] \div f[2]
      r   == f[1] % f[2]
      t   == (10 * r) \div f[2]
      r2  == (10 * r) % f[2]
      low == 10 * n + t
  IN  IF 2 * r2 > f[2] THEN low + 1
      ELSE IF 2 * r2 < f[2] THEN low
      ELSE IF low % 2 = 0 THEN low ELSE low + 1

(***************************************************************************)
(* dict reads.                                                             *)
(***************************************************************************)
None == [NoneType |-> <<>>]

EmptyDict == [k \in {} |-> <<>>]

\* truth value of a dict-or-None
Truthy(d) == d # None /\ DOMAIN d # {}

\* d.get(k, default)
Get(d, k, default) == IF k \in DOMAIN d THEN d[k] ELSE default

\* d[k] in place of d.get(k): raises KeyError when k is not present
GetRaises_subscript(d, k) == k \notin DOMAIN d

\* d.get(k) never raises KeyError, whether or not k is present
GetRaises(d, k) == FALSE

(***************************************************************************)
(* calculate_skill_match_score                                             *)
(***************************************************************************)
\* normalize without .lower()
RECURSIVE normalize_nolower(_)
normalize_nolower(lst) ==
  IF lst = <<>> THEN <<>>
  ELSE IF strip(Head(lst)) # <<>>
       THEN <<strip(Head(lst))>> \o normalize_nolower(Tail(lst))
       ELSE normalize_nolower(Tail(lst))

\* list comprehension [f(x) for x in lst if x.strip()], f = strip + lower
RECURSIVE normalize(_)
normalize(lst) ==
  IF lst = <<>> THEN <<>>
  ELSE IF strip(Head(lst)) # <<>>
       THEN <<lower(strip(Head(lst)))>> \o normalize(Tail(lst))
       ELSE normalize(Tail(lst))

\* is_variation with the first direction only
is_variation_oneway(user_skill, req_skill) ==
  \E e \in 1..Len(skill_variations) :
    req_skill = skill_variations[e][1] /\ In(user_skill, skill_variations[e][2])

\* lines 344-347: the pair is in the table, in either direction
is_variation(user_skill, req_skill) ==
  \E e \in 1..Len(skill_variations) :
    LET base_skill == skill_variations[e][1]
        variations == skill_variations[e][2]
    IN  \/ req_skill = base_skill /\ In(user_skill, variations)
        \/ user_skill = base_skill /\ In(req_skill, variations)

\* one pass of the inner loop body, lines 323-347, for a user skill that is
\* not equal to the required skill
match_step(best_match_score, user_skill, req_skill) ==
  LET similarity == ratio(user_skill, req_skill)
      b1 == IF frac_gt(similarity, <<4, 5>>)
            THEN frac_max(best_match_score, similarity)
            ELSE IF contains(user_skill, req_skill) \/ contains(req_skill, user_skill)
                 THEN frac_max(best_match_score, <<9, 10>>)
                 ELSE best_match_score
  IN  IF is_variation(user_skill, req_skill)
      THEN frac_max(b1, <<19, 20>>)
      ELSE b1

\* the inner loop, lines 317-347, from user skill number k on
RECURSIVE best_match(_, _, _, _)
best_match(user_skills, req_skill, k, best_match_score) ==
  IF k > Len(user_skills) THEN best_match_score
  ELSE IF user_skills[k] = req_skill THEN <<1, 1>>
  ELSE best_match(user_skills, req_skill, k + 1,
                  match_step(best_match_score, user_skills[k], req_skill))

\* the outer loop, lines 311-349: the sum of the per-skill scores
RECURSIVE match_sum(_, _)
match_sum(user_skills, required_skills) ==
  IF required_skills = <<>> THEN <<0, 1>>
  ELSE frac_add(best_match(user_skills, Head(required_skills), 1, <<0, 1>>),
                match_sum(user_skills, Tail(required_skills)))

\* line 352, as a fraction of a point
percentage(user_skills, required_skills) ==
  LET s == match_sum(user_skills, required_skills)
  IN  frac(100 * s[1], s[2] * Len(required_skills))

any_in(keywords, text) == \E i \in 1..Len(keywords) : contains(text, keywords[i])

edu_keywords ==
  << <<"e","n","g","i","n","e","e","r","i","n","g">>,
     <<"b","t","e","c","h">>,
     <<"c","o","m","p","u","t","e","r">>,
     <<"i","t">>,
     <<"t","e","c","h","n","o","l","o","g","y">> >>

job_sectors ==
  << <<"t","e","c","h","n","o","l","o","g","y">>,
     <<"f","i","n","a","n","c","e">>,
     <<"h","e","a","l","t","h","c","a","r","e">>,
     <<"e","n","g","i","n","e","e","r","i","n","g">>,
     <<"m","a","n","a","g","e","m","e","n","t">> >>

s_yes == <<"y","e","s">>

qualification_bonus(user_profile) ==
  IF Get(user_profile, "qualification", <<>>) # <<>>
     /\ any_in(edu_keywords, lower(user_profile["qualification"]))
  THEN 5 ELSE 0

interest_bonus(user_profile) ==
  IF Get(user_profile, "area_of_interest", <<>>) # <<>>
     /\ any_in(job_sectors, lower(user_profile["area_of_interest"]))
  THEN 3 ELSE 0

\* internship_bonus for any non-empty prior_internship
internship_bonus_any(user_profile) ==
  IF Get(user_profile, "prior_internship", <<>>) # <<>> THEN 7 ELSE 0

internship_bonus(user_profile) ==
  IF Get(user_profile, "prior_internship", <<>>) = s_yes THEN 7 ELSE 0

\* lines 355-373
bonus_points(user_profile) ==
  IF Truthy(user_profile)
  THEN qualification_bonus(user_profile) + interest_bonus(user_profile)
       + internship_bonus(user_profile)
  ELSE 0

\* min(100, percentage + bonus_points), line 376
final_percentage(p, bonus) ==
  LET total == <<p[1] + bonus * p[2], p[2]>>
  IN  IF frac_gt(total, <<100, 1>>) THEN <<100, 1>> ELSE total

\* calculate_skill_match_score without the test of lines 308-309
calculate_skill_match_score_nocheck(user_skills_string, required_skills_list, user_profile) ==
  IF user_skills_string = <<>> \/ required_skills_list = <<>> THEN 0
  ELSE round_1(final_percentage(percentage(normalize(split(user_skills_string, ",")),
                                           normalize(required_skills_list)),
                                bonus_points(user_profile)))

calculate_skill_match_score(user_skills_string, required_skills_list, user_profile) ==
  IF user_skills_string = <<>> \/ required_skills_list = <<>> THEN 0
  ELSE LET user_skills     == normalize(split(user_skills_string, ","))
           required_skills == normalize(required_skills_list)
       IN  IF user_skills = <<>> \/ required_skills = <<>> THEN 0
           ELSE round_1(final_percentage(percentage(user_skills, required_skills),
                                         bonus_points(user_profile)))

(***************************************************************************)
(* sort_recommendations_by_match.  A posting is referred to by its         *)
(* position in the list `recommendations` (the identity of the dict        *)
(* object); government_recs, service_recs and top_recommendations are      *)
(* sequences of such references.                                           *)
(***************************************************************************)
s_government == <<"g","o","v","e","r","n","m","e","n","t">>
s_private_based == <<"p","r","i","v","a","t","e","-","b","a","s","e","d">>

Min(a, b) == IF a < b THEN a ELSE b

\* line 385
user_skills_of(u) == IF Truthy(u) THEN Get(u, "skills", <<>>) ELSE <<>>

\* is_government that holds of every posting with a type
is_government_any(rec) == "type" \in DOMAIN rec

\* line 401: rec.get('type') == 'government'
is_government(rec) == Get(rec, "type", <<>>) = s_government

\* match_score_of that reads a score already stored in the dict
match_score_of_stored(rec, u) ==
  Get(rec, "skill_match_score",
      calculate_skill_match_score(user_skills_of(u), Get(rec, "skills", <<>>), u))

\* lines 392-396
match_score_of(rec, u) ==
  calculate_skill_match_score(user_skills_of(u), Get(rec, "skills", <<>>), u)

\* boosted_score without the cap
boosted_score_nocap(match_score) == match_score + 100

\* line 403: 10 points, capped at 100 (in tenths)
boosted_score(match_score) == Min(1000, match_score + 100)

\* stored_score that boosts the value already stored in the dict, if any
stored_score_accum(rec, u) ==
  IF is_government(rec)
  THEN boosted_score(Get(rec, "skill_match_score", match_score_of(rec, u)))
  ELSE match_score_of(rec, u)

\* lines 399-404: the value left in rec['skill_match_score']
stored_score(rec, u) ==
  IF is_government(rec) THEN boosted_score(match_score_of(rec, u))
  ELSE match_score_of(rec, u)

\* rec['skill_match_score'] = v
set_score(rec, v) == ("skill_match_score" :> v) @@ rec

\* a descending sort that is not stable: of equal keys the last comes first
\* (what sorted(lst)[::-1] does)
RECURSIVE sort_reverse_last(_)
sort_reverse_last(lst) ==
  IF lst = <<>> THEN <<>>
  ELSE LET i == CHOOSE k \in 1..Len(lst) :
                  /\ \A m \in 1..Len(lst) : lst[m][1] <= lst[k][1]
                  /\ \A m \in (k + 1)..Len(lst) : lst[m][1] < lst[k][1]
       IN  <<lst[i]>> \o sort_reverse_last(SubSeq(lst, 1, i - 1) \o SubSeq(lst, i + 1, Len(lst)))

\* lst.sort(key=lambda x: x[0], reverse=True) on a list of <<key, ref>>:
\* descending, equal keys keep their order
RECURSIVE sort_reverse(_)
sort_reverse(lst) ==
  IF lst = <<>> THEN <<>>
  ELSE LET i == CHOOSE k \in 1..Len(lst) :
                  /\ \A m \in 1..Len(lst) : lst[m][1] <= lst[k][1]
                  /\ \A m \in 1..(k - 1) : lst[m][1] < lst[k][1]
       IN  <<lst[i]>> \o sort_reverse(SubSeq(lst, 1, i - 1) \o SubSeq(lst, i + 1, Len(lst)))

\* bucket filled with insert(0, ...): the references in reverse input order
RECURSIVE bucket_reversed(_, _, _)
bucket_reversed(recs, gov, i) ==
  IF i > Len(recs) THEN <<>>
  ELSE IF is_government(recs[i]) = gov
       THEN bucket_reversed(recs, gov, i + 1) \o <<<<recs[i]["skill_match_score"], i>>>>
       ELSE bucket_reversed(recs, gov, i + 1)

\* the references of recs, in order, that satisfy / do not satisfy is_government,
\* paired with the score appended at lines 405 and 407
RECURSIVE bucket(_, _, _)
bucket(recs, gov, i) ==
  IF i > Len(recs) THEN <<>>
  ELSE IF is_government(recs[i]) = gov
       THEN <<<<recs[i]["skill_match_score"], i>>>> \o bucket(recs, gov, i + 1)
       ELSE bucket(recs, gov, i + 1)

\* lines 417-421
RECURSIVE take_government(_, _, _)
take_government(government_recs, k, gov_count) ==
  IF k > Len(government_recs) THEN <<>>
  ELSE IF gov_count < 3
       THEN <<government_recs[k][2]>> \o take_government(government_recs, k + 1, gov_count + 1)
       ELSE take_government(government_recs, k + 1, gov_count)

\* take_service with len(top_recommendations) < 4
RECURSIVE take_service_four(_, _, _, _)
take_service_four(service_recs, k, top, service_count) ==
  IF k > Len(service_recs) THEN top
  ELSE IF Len(top) < 4 /\ service_count < 3
       THEN take_service_four(service_recs, k + 1, Append(top, service_recs[k][2]), service_count + 1)
       ELSE take_service_four(service_recs, k + 1, top, service_count)

\* lines 424-428
RECURSIVE take_service(_, _, _, _)
take_service(service_recs, k, top, service_count) ==
  IF k > Len(service_recs) THEN top
  ELSE IF Len(top) < 5 /\ service_count < 3
       THEN take_service(service_recs, k + 1, Append(top, service_recs[k][2]), service_count + 1)
       ELSE take_service(service_recs, k + 1, top, service_count)

\* take_overflow that appends nothing
take_overflow_none(government_recs, k, top) == top

\* lines 431-434
RECURSIVE take_overflow(_, _, _)
take_overflow(government_recs, k, top) ==
  IF k > Len(government_recs) THEN top
  ELSE IF Len(top) < 5
       THEN take_overflow(government_recs, k + 1, Append(top, government_recs[k][2]))
       ELSE take_overflow(government_recs, k + 1, top)

\* select_top whose overflow loop runs over government_recs, not government_recs[gov_count:]
select_top_noslice(government_recs, service_recs) ==
  LET g == take_government(government_recs, 1, 0)
      s == take_service(service_recs, 1, g, 0)
  IN  IF Len(s) < 5 /\ Len(g) < Len(government_recs)
      THEN take_overflow(government_recs, 1, s)
      ELSE s

\* lines 413-434
select_top(government_recs, service_recs) ==
  LET g         == take_government(government_recs, 1, 0)
      gov_count == Len(g)
      s         == take_service(service_recs, 1, g, 0)
  IN  IF Len(s) < 5 /\ gov_count < Len(government_recs)
      THEN take_overflow(government_recs, gov_count + 1, s)
      ELSE s

\* annotate followed by recommendations.sort(...) on the caller's list
annotate_sorted_in_place(recs, u) ==
  LET scored == [i \in 1..Len(recs) |-> set_score(recs[i], stored_score(recs[i], u))]
      keyed  == sort_reverse([i \in 1..Len(recs) |-> <<scored[i]["skill_match_score"], i>>])
  IN  [k \in 1..Len(recs) |-> scored[keyed[k][2]]]

\* lines 391-407, the loop: every dict gets its skill_match_score
annotate(recs, u) ==
  [i \in 1..Len(recs) |-> set_score(recs[i], stored_score(recs[i], u))]

\* final_sort without the sort
final_sort_nosort(recs, top) == SubSeq(top, 1, Min(5, Len(top)))

\* lines 437-439
final_sort(recs, top) ==
  LET keyed  == [k \in 1..Len(top) |-> <<Get(recs[top[k]], "skill_match_score", 0), top[k]>>]
      sorted == sort_reverse(keyed)
  IN  SubSeq([k \in 1..Len(sorted) |-> sorted[k][2]], 1, Min(5, Len(sorted)))

\* ranked without lines 410-411, the buckets left in input order
ranked_unsorted_buckets(recs) ==
  final_sort(recs, select_top(bucket(recs, TRUE, 1), bucket(recs, FALSE, 1)))

\* the list returned for annotated dicts recs
ranked(recs) ==
  final_sort(recs, select_top(sort_reverse(bucket(recs, TRUE, 1)),
                              sort_reverse(bucket(recs, FALSE, 1))))

(***************************************************************************)
(* The static catalog of get_enhanced_default_recommendations, lines        *)
(* 448-617: the company, type and skills of its 15 postings, in order.  The *)
(* other fields (title, sector, duration, location, stipend, description)   *)
(* are display text no code reads.                                          *)
(***************************************************************************)
all_recommendations ==
  <<[company |-> <<"I","S","R","O">>,
      type |-> s_government,
      skills |-> <<<<"P","r","o","g","r","a","m","m","i","n","g">>,
                  <<"R","e","s","e","a","r","c","h">>,
                  <<"D","a","t","a"," ","A","n","a","l","y","s","i","s">>,
                  <<"M","A","T","L","A","B">>,
                  <<"P","y","t","h","o","n">>>>],
     [company |-> <<"D","R","D","O">>,
      type |-> s_government,
      skills |-> <<<<"R","e","s","e","a","r","c","h">>,
                  <<"E","n","g","i","n","e","e","r","i","n","g">>,
                  <<"T","e","c","h","n","i","c","a","l"," ","A","n","a","l","y","s","i","s">>,
                  <<"P","r","o","b","l","e","m"," ","S","o","l","v","i","n","g">>,
                  <<"I","n","n","o","v","a","t","i","o","n">>>>],
     [company |-> <<"N","I","T","I"," ","A","a","y","o","g">>,
      type |-> s_government,
      skills |-> <<<<"R","e","s","e","a","r","c","h">>,
                  <<"P","o","l","i","c","y"," ","A","n","a","l","y","s","i","s">>,
                  <<"D","a","t","a"," ","I","n","t","e","r","p","r","e","t","a","t","i","o","n">>,
                  <<"R","e","p","o","r","t"," ","W","r","i","t","i","n","g">>,
                  <<"C","o","m","m","u","n","i","c","a","t","i","o","n">>>>],
     [company |-> <<"I","n","d","i","a","n"," ","R","a","i","l","w","a","y","s">>,
      type |-> s_government,
      skills |-> <<<<"O","p","e","r","a","t","i","o","n","s"," ","M","a","n","a","g","e","m","e","n","t">>,
                  <<"L","o","g","i","s","t","i","c","s">>,
                  <<"E","n","g","i","n","e","e","r","i","n","g">>,
                  <<"P","r","o","j","e","c","t"," ","M","a","n","a","g","e","m","e","n","t">>,
                  <<"D","a","t","a"," ","A","n","a","l","y","s","i","s">>>>],
     [company |-> <<"C","S","I","R"," ","L","a","b","s">>,
      type |-> s_government,
      skills |-> <<<<"R","e","s","e","a","r","c","h">>,
                  <<"D","a","t","a"," ","A","n","a","l","y","s","i","s">>,
                  <<"L","a","b","o","r","a","t","o","r","y"," ","S","k","i","l","l","s">>,
                  <<"S","c","i","e","n","t","i","f","i","c"," ","W","r","i","t","i","n","g">>,
                  <<"I","n","n","o","v","a","t","i","o","n">>>>],
     [company |-> <<"M","i","n","i","s","t","r","y"," ","o","f"," ","E","l","e","c","t","r","o","n","i","c","s"," ","&"," ","I","T">>,
      type |-> s_government,
      skills |-> <<<<"P","r","o","g","r","a","m","m","i","n","g">>,
                  <<"D","i","g","i","t","a","l"," ","L","i","t","e","r","a","c","y">>,
                  <<"W","e","b"," ","D","e","v","e","l","o","p","m","e","n","t">>,
                  <<"D","a","t","a"," ","M","a","n","a","g","e","m","e","n","t">>,
                  <<"C","y","b","e","r","s","e","c","u","r","i","t","y">>>>],
     [company |-> <<"B","A","R","C">>,
      type |-> s_government,
      skills |-> <<<<"E","n","g","i","n","e","e","r","i","n","g">>,
                  <<"R","e","s","e","a","r","c","h">>,
                  <<"D","a","t","a"," ","A","n","a","l","y","s","i","s">>,
                  <<"S","a","f","e","t","y"," ","P","r","o","t","o","c","o","l","s">>,
                  <<"T","e","c","h","n","i","c","a","l"," ","D","o","c","u","m","e","n","t","a","t","i","o","n">>>>],
     [company |-> <<"T","C","S"," ","(","T","a","t","a"," ","C","o","n","s","u","l","t","a","n","c","y"," ","S","e","r","v","i","c","e","s",")">>,
      type |-> s_private_based,
      skills |-> <<<<"J","a","v","a">>,
                  <<"P","y","t","h","o","n">>,
                  <<"P","r","o","g","r","a","m","m","i","n","g">>,
                  <<"P","r","o","b","l","e","m"," ","S","o","l","v","i","n","g">>,
                  <<"C","o","m","m","u","n","i","c","a","t","i","o","n">>>>],
     [company |-> <<"I","n","f","o","s","y","s">>,
      type |-> s_private_based,
      skills |-> <<<<"D","i","g","i","t","a","l"," ","T","e","c","h","n","o","l","o","g","i","e","s">>,
                  <<"I","n","n","o","v","a","t","i","o","n">>,
                  <<"C","l","o","u","d"," ","C","o","m","p","u","t","i","n","g">>,
                  <<"P","r","o","b","l","e","m"," ","S","o","l","v","i","n","g">>,
                  <<"T","e","a","m","w","o","r","k">>>>],
     [company |-> <<"W","i","p","r","o">>,
      type |-> s_private_based,
      skills |-> <<<<"C","l","o","u","d"," ","C","o","m","p","u","t","i","n","g">>,
                  <<"D","e","v","O","p","s">>,
                  <<"P","r","o","g","r","a","m","m","i","n","g">>,
                  <<"A","g","i","l","e">>,
                  <<"L","e","a","r","n","i","n","g"," ","A","g","i","l","i","t","y">>>>],
     [company |-> <<"M","i","c","r","o","s","o","f","t"," ","I","n","d","i","a">>,
      type |-> s_private_based,
      skills |-> <<<<"P","r","o","g","r","a","m","m","i","n","g">>,
                  <<"A","I","/","M","L">>,
                  <<"C","l","o","u","d"," ","P","l","a","t","f","o","r","m","s">>,
                  <<"D","a","t","a"," ","S","c","i","e","n","c","e">>,
                  <<"I","n","n","o","v","a","t","i","o","n">>>>],
     [company |-> <<"G","o","o","g","l","e"," ","I","n","d","i","a">>,
      type |-> s_private_based,
      skills |-> <<<<"P","r","o","g","r","a","m","m","i","n","g">>,
                  <<"A","l","g","o","r","i","t","h","m","s">>,
                  <<"D","a","t","a"," ","S","t","r","u","c","t","u","r","e","s">>,
                  <<"P","r","o","b","l","e","m"," ","S","o","l","v","i","n","g">>,
                  <<"S","o","f","t","w","a","r","e"," ","D","e","s","i","g","n">>>>],
     [company |-> <<"A","m","a","z","o","n"," ","I","n","d","i","a">>,
      type |-> s_private_based,
      skills |-> <<<<"P","r","o","g","r","a","m","m","i","n","g">>,
                  <<"S","y","s","t","e","m"," ","D","e","s","i","g","n">>,
                  <<"A","W","S">>,
                  <<"D","a","t","a"," ","S","t","r","u","c","t","u","r","e","s">>,
                  <<"P","r","o","b","l","e","m"," ","S","o","l","v","i","n","g">>>>],
     [company |-> <<"H","D","F","C"," ","B","a","n","k">>,
      type |-> s_private_based,
      skills |-> <<<<"F","i","n","a","n","c","i","a","l"," ","T","e","c","h","n","o","l","o","g","y">>,
                  <<"D","a","t","a"," ","A","n","a","l","y","s","i","s">>,
                  <<"B","a","n","k","i","n","g"," ","O","p","e","r","a","t","i","o","n","s">>,
                  <<"C","o","m","m","u","n","i","c","a","t","i","o","n">>,
                  <<"E","x","c","e","l">>>>],
     [company |-> <<"A","c","c","e","n","t","u","r","e">>,
      type |-> s_private_based,
      skills |-> <<<<"B","u","s","i","n","e","s","s"," ","A","n","a","l","y","s","i","s">>,
                  <<"T","e","c","h","n","o","l","o","g","y"," ","C","o","n","s","u","l","t","i","n","g">>,
                  <<"C","o","m","m","u","n","i","c","a","t","i","o","n">>,
                  <<"P","r","o","b","l","e","m"," ","S","o","l","v","i","n","g">>,
                  <<"P","r","o","j","e","c","t"," ","M","a","n","a","g","e","m","e","n","t">>>>] >>

\* a read of the call raises: line 385 on the profile, lines 394 and 401 on a posting
raises_at(recs, u, i) ==
  \/ GetRaises(recs[i], "skills")
  \/ GetRaises(recs[i], "type")

raises_on_entry(u) == Truthy(u) /\ GetRaises(u, "skills")

(***************************************************************************)
(* Bounds and input sets.                                                  *)
(***************************************************************************)
MaxUserSkills == 2
MaxReq        == 2
MaxRecs       == 6
MaxCalls      == 2

SeqsUpTo(S, n) == UNION { [1..k -> S] : k \in 0..n }

RECURSIVE join(_, _)
join(lst, sep) ==
  IF lst = <<>> THEN <<>>
  ELSE IF Len(lst) = 1 THEN lst[1]
  ELSE lst[1] \o sep \o join(Tail(lst), sep)

w_Python == <<"P","y","t","h","o","n">>
w_SQL    == <<" ","S","Q","L"," ">>
w_CSS    == <<" ","C","S","S"," ">>
w_css3   == <<"c","s","s","3">>
w_blank  == <<" "," ">>
w_BTech  == <<"B","T","e","c","h">>
w_Arts   == <<"A","r","t","s">>
w_Finance == <<"F","i","n","a","n","c","e">>
w_no     == <<"n","o">>

TableStrings ==
  UNION { {skill_variations[e][1]} \cup { skill_variations[e][2][i] : i \in 1..Len(skill_variations[e][2]) }
          : e \in 1..Len(skill_variations) }

UserVocab == {s_python, s_js, w_CSS, s_javascript}
ReqVocab  == {w_Python, s_javascript, w_css3, w_blank}

\* comma-separated skill texts; a list of no tokens gives '', and " , " is a
\* text that normalizes to no token
UserTexts ==
  { join(l, <<",", " ">>) : l \in SeqsUpTo(UserVocab, MaxUserSkills) } \cup { <<" ", ",", " ">> }

ReqLists == SeqsUpTo(ReqVocab, MaxReq)

ProfileFields ==
  [qualification    : {<<>>, w_Arts, w_BTech},
   area_of_interest : {<<>>, w_Finance},
   prior_internship : {<<>>, w_no, s_yes}]

\* profiles as the profile provider returns them: <<>> above stands for a
\* field that is not present
Profiles ==
  { [k \in {f \in {"qualification", "area_of_interest", "prior_internship"} : p[f] # <<>>} |-> p[k]]
    : p \in ProfileFields } \cup {None}

Calls ==
  [user_skills_string : UserTexts, required_skills_list : ReqLists, user_profile : Profiles]
  \cup
  [user_skills_string : TableStrings,
   required_skills_list : { <<r>> : r \in TableStrings },
   user_profile : {None}]

NoCall == [user_skills_string |-> <<>>, required_skills_list |-> <<>>, user_profile |-> None]
NoPrev == [top |-> <<>>, recs |-> <<>>, calls |-> 0]

\* profiles handed to the selector
Users ==
  { None,
    [skills |-> join(<<w_Python, w_SQL>>, <<",", " ">>)],
    [skills |-> join(<<s_java, s_python>>, <<",">>), qualification |-> w_BTech,
     area_of_interest |-> w_Finance, prior_internship |-> s_yes],
    [qualification |-> w_BTech] }

\* postings as the candidate generator returns them
Postings ==
  { [company |-> <<"A">>, type |-> s_government, skills |-> <<w_Python, s_java>>],
    [company |-> <<"B">>, type |-> s_government],
    [company |-> <<"C">>, type |-> s_private_based, skills |-> <<s_sql>>],
    [company |-> <<"D">>] }

(***************************************************************************)
(* State machine.                                                          *)
(*   pc = "calling":  a direct call of calculate_skill_match_score with    *)
(*                    the arguments in `call` is about to run              *)
(*   pc = "scored":   it returned `ret` (ret is -1 before that)            *)
(*   pc = "building": the candidate generator is filling `recommendations` *)
(*   pc = "returned": sort_recommendations_by_match returned               *)
(*                    `top_recommendations`                                *)
(*   pc = "raised":   sort_recommendations_by_match raised                 *)
(*   pc = "reranked": sort_recommendations_by_match returned               *)
(*                    `top_recommendations` for the list it had returned   *)
(*   `conc` is used by the interleaved calls of SpecConc only.             *)
(***************************************************************************)
NoConc == [lists |-> <<>>, calls |-> <<>>]

\* `gen` is used by generate_recommendations_fast (SpecFast) only
NoGen == [null_fields |-> {}, response |-> [has_text |-> FALSE, text |-> <<>>], path |-> ""]

Init ==
  /\ \/ pc = "calling" /\ call \in Calls /\ user = None
     \/ pc = "building" /\ call = NoCall /\ user \in Users
  /\ ret = -1
  /\ recommendations = <<>>
  /\ top_recommendations = <<>>
  /\ prev = NoPrev
  /\ conc = NoConc
  /\ gen = NoGen

ScoreCall ==
  /\ pc = "calling"
  /\ ret' = calculate_skill_match_score(call.user_skills_string,
                                        call.required_skills_list,
                                        call.user_profile)
  /\ pc' = "scored"
  /\ UNCHANGED <<call, user, recommendations, top_recommendations, prev, conc, gen>>

AddPosting(p) ==
  /\ pc = "building"
  /\ Len(recommendations) < MaxRecs
  /\ recommendations' = Append(recommendations, p)
  /\ UNCHANGED <<call, ret, user, top_recommendations, pc, prev, conc, gen>>

\* the first posting whose reads raise, or 0
first_raise(recs, u) ==
  IF \E i \in 1..Len(recs) : raises_at(recs, u, i)
  THEN CHOOSE i \in 1..Len(recs) :
         raises_at(recs, u, i) /\ \A m \in 1..(i - 1) : ~raises_at(recs, u, m)
  ELSE 0

\* one whole call sort_recommendations_by_match(recommendations, user); the
\* call may be repeated on the dicts it has already annotated
SortRecommendations ==
  /\ pc \in {"building", "returned"}
  /\ prev.calls < MaxCalls
  /\ prev' = [top |-> top_recommendations, recs |-> recommendations, calls |-> prev.calls + 1]
  /\ IF raises_on_entry(user)
     THEN /\ pc' = "raised"
          /\ UNCHANGED <<recommendations, top_recommendations>>
     ELSE LET f == first_raise(recommendations, user) IN
          IF f # 0
          THEN /\ pc' = "raised"
               /\ recommendations' =
                    [i \in 1..Len(recommendations) |->
                       IF i < f THEN annotate(recommendations, user)[i]
                       ELSE recommendations[i]]
               /\ UNCHANGED top_recommendations
          ELSE /\ pc' = "returned"
               /\ recommendations' = annotate(recommendations, user)
               /\ top_recommendations' = ranked(recommendations')
  /\ UNCHANGED <<call, ret, user, conc, gen>>

\* the list of dicts a call returns: the dicts of recs that top refers to
returned_list(recs, top) == [k \in 1..Len(top) |-> recs[top[k]]]

\* generate_ai_recommendations, line 908: the list generate_recommendations_fast
\* returned (a result of sort_recommendations_by_match) is passed to
\* sort_recommendations_by_match again with the same user; `recommendations`
\* becomes the argument of that second call.  No read of it raises: the
\* first call read the same keys of the same dicts.
Rerank ==
  /\ pc = "returned"
  /\ prev' = [top |-> top_recommendations, recs |-> recommendations, calls |-> prev.calls + 1]
  /\ recommendations' = annotate(returned_list(recommendations, top_recommendations), user)
  /\ top_recommendations' = ranked(recommendations')
  /\ pc' = "reranked"
  /\ UNCHANGED <<call, ret, user, conc, gen>>

Next ==
  \/ ScoreCall
  \/ \E p \in Postings : AddPosting(p)
  \/ SortRecommendations
  \/ Rerank

Spec == Init /\ [][Next]_vars

(***************************************************************************)
(* Interleaved calls of sort_recommendations_by_match.  conc.lists[n] is   *)
(* the n-th list of posting dicts on the heap; conc.calls[t] holds the     *)
(* locals of call t: its profile `user`, the loop position `i` of the loop *)
(* of lines 391-407, government_recs, service_recs, top_recommendations    *)
(* (`top`) and the position `at` of the call.  `input` is the list as it   *)
(* was handed to the call.  A step is one loop iteration, the sorting and  *)
(* selection of lines 410-434 (locals only), or the final sort of line 437 *)
(* (which reads the dicts).                                                *)
(***************************************************************************)
ConcCalls   == 2
MaxConcRecs == 2

\* every call works on one list shared by all calls (a module-level catalog)
list_of_shared(t) == 1

\* the list call t works on: its own argument (for
\* get_enhanced_default_recommendations the local all_recommendations)
list_of(t) == t

ConcUsers ==
  { [skills |-> join(<<w_Python, w_SQL>>, <<",", " ">>)],
    [skills |-> join(<<s_java, s_python>>, <<",">>), qualification |-> w_BTech,
     area_of_interest |-> w_Finance, prior_internship |-> s_yes] }

ConcPostings ==
  { [company |-> <<"A">>, type |-> s_government, skills |-> <<w_Python, s_java>>],
    [company |-> <<"C">>, type |-> s_private_based, skills |-> <<s_sql>>] }

ConcInputs == SeqsUpTo(ConcPostings, MaxConcRecs)

NewCall(u, recs) ==
  [user |-> u, input |-> recs, i |-> 1, government_recs |-> <<>>, service_recs |-> <<>>,
   top |-> <<>>, at |-> "loop"]

InitConc ==
  /\ pc = "concurrent"
  /\ call = NoCall
  /\ ret = -1
  /\ user = None
  /\ recommendations = <<>>
  /\ top_recommendations = <<>>
  /\ prev = NoPrev
  /\ gen = NoGen
  /\ \E us \in [1..ConcCalls -> ConcUsers], ls \in [1..ConcCalls -> ConcInputs] :
       conc = [lists |-> ls, calls |-> [t \in 1..ConcCalls |-> NewCall(us[t], ls[t])]]

\* one iteration of the loop of lines 391-407 in call t
ConcAnnotate(t) ==
  LET c    == conc.calls[t]
      n    == list_of(t)
      recs == conc.lists[n]
  IN  /\ pc = "concurrent"
      /\ c.at = "loop"
      /\ c.i <= Len(recs)
      /\ LET rec   == recs[c.i]
             score == stored_score(rec, c.user)
             c2    == IF is_government(rec)
                      THEN [c EXCEPT !.i = c.i + 1,
                                     !.government_recs = Append(c.government_recs, <<score, c.i>>)]
                      ELSE [c EXCEPT !.i = c.i + 1,
                                     !.service_recs = Append(c.service_recs, <<score, c.i>>)]
         IN  conc' = [lists |-> [conc.lists EXCEPT ![n] = [recs EXCEPT ![c.i] = set_score(rec, score)]],
                      calls |-> [conc.calls EXCEPT ![t] = c2]]
      /\ UNCHANGED <<call, ret, user, recommendations, top_recommendations, pc, prev, gen>>

\* lines 410-434 in call t
ConcSelect(t) ==
  LET c == conc.calls[t]
  IN  /\ pc = "concurrent"
      /\ c.at = "loop"
      /\ c.i > Len(conc.lists[list_of(t)])
      /\ conc' = [conc EXCEPT !.calls[t] =
                    [c EXCEPT !.top = select_top(sort_reverse(c.government_recs),
                                                 sort_reverse(c.service_recs)),
                              !.at = "selected"]]
      /\ UNCHANGED <<call, ret, user, recommendations, top_recommendations, pc, prev, gen>>

\* lines 437-439 in call t
ConcFinalSort(t) ==
  LET c == conc.calls[t]
  IN  /\ pc = "concurrent"
      /\ c.at = "selected"
      /\ conc' = [conc EXCEPT !.calls[t] =
                    [c EXCEPT !.top = final_sort(conc.lists[list_of(t)], c.top),
                              !.at = "done"]]
      /\ UNCHANGED <<call, ret, user, recommendations, top_recommendations, pc, prev, gen>>

NextConc ==
  \E t \in 1..ConcCalls : ConcAnnotate(t) \/ ConcSelect(t) \/ ConcFinalSort(t)

SpecConc == InitConc /\ [][NextConc]_vars

(***************************************************************************)
(* generate_recommendations_fast (lines 622-658) with its fallback         *)
(* get_enhanced_default_recommendations (lines 441-620).                   *)
(*                                                                         *)
(* The text of the generator's response is a sequence whose elements are   *)
(* single characters, except that each of "A", "C", "D" stands for the     *)
(* JSON object literal of one posting (object_of) and "1" for a number     *)
(* literal; "x" is any character that is none of the others.               *)
(*                                                                         *)
(* `gen` holds                                                             *)
(*   null_fields: the keys of the user row whose value is None; they are   *)
(*                left out of `user` (for the matcher and the selector a   *)
(*                None value is an absent key), but lines 443-445 call     *)
(*                .lower() on the value and tell the two apart             *)
(*   response:    what model.generate_content returned                     *)
(*   path:        "" while the call runs, then "generated" or "catalog",   *)
(*                the return statement taken (line 652 or line 658)        *)
(*   pc = "fast_called":   the call has started                            *)
(*   pc = "fast_waiting":  model.generate_content has been called          *)
(*   pc = "fast_answered": it returned gen.response                        *)
(*   pc = "fast_except":   an exception reached the handler of line 656    *)
(*   pc = "fast_returned": the call returned `top_recommendations`         *)
(*   pc = "fast_raised":   the call raised                                 *)
(***************************************************************************)
MaxGenerated == 2

ObjectTokens == {"A", "C", "D"}
ValueTokens  == ObjectTokens \cup {"1"}

\* the dict json.loads builds for an object literal
object_of(tok) ==
  CASE tok = "A" -> [company |-> <<"A">>, type |-> s_government, skills |-> <<w_Python, s_java>>]
    [] tok = "C" -> [company |-> <<"C">>, type |-> s_private_based, skills |-> <<s_sql>>]
    [] tok = "D" -> [company |-> <<"D">>]

\* str.find(ch): the 0-based index of the first ch, -1 if there is none
find(text, ch) ==
  IF \E k \in 1..Len(text) : text[k] = ch
  THEN (CHOOSE k \in 1..Len(text) : text[k] = ch /\ \A m \in 1..(k - 1) : text[m] # ch) - 1
  ELSE -1

\* str.rfind(ch): the 0-based index of the last ch, -1 if there is none
rfind(text, ch) ==
  IF \E k \in 1..Len(text) : text[k] = ch
  THEN (CHOOSE k \in 1..Len(text) : text[k] = ch /\ \A m \in (k + 1)..Len(text) : text[m] # ch) - 1
  ELSE -1

\* text[a:b] for a >= 0 and b >= 0
slice(text, a, b) == SubSeq(text, a + 1, Min(b, Len(text)))

\* the text without the whitespace json.loads skips between tokens
RECURSIVE skip_whitespace(_)
skip_whitespace(text) ==
  IF text = <<>> THEN <<>>
  ELSE IF Head(text) \in Whitespace THEN skip_whitespace(Tail(text))
  ELSE <<Head(text)>> \o skip_whitespace(Tail(text))

\* json.loads on an array of object and number literals: the sequence of
\* its values, or a JSONDecodeError (ok = FALSE).  ReplyTexts holds no
\* array inside an array.
json_loads(json_str) ==
  LET t     == skip_whitespace(json_str)
      inner == SubSeq(t, 2, Len(t) - 1)
      ok    == /\ Len(t) >= 2
               /\ t[1] = "[" /\ t[Len(t)] = "]"
               /\ \/ inner = <<>>
                  \/ /\ Len(inner) % 2 = 1
                     /\ \A k \in 1..Len(inner) :
                          IF k % 2 = 1 THEN inner[k] \in ValueTokens ELSE inner[k] = ","
  IN  [ok |-> ok,
       value |-> IF ok THEN [k \in 1..((Len(inner) + 1) \div 2) |-> inner[2 * k - 1]] ELSE <<>>]

\* lines 645-654 up to the call of the selector: the values of
\* recommendations[:6], or an exception (ok = FALSE)
parsed_first_six(response) ==
  IF ~response.has_text THEN [ok |-> FALSE, value |-> <<>>]
  ELSE LET recommendations_text == strip(response.text)
           start_idx == find(recommendations_text, "[")
           end_idx   == rfind(recommendations_text, "]") + 1
       IN  IF start_idx # -1 /\ end_idx # -1
           THEN LET loaded == json_loads(slice(recommendations_text, start_idx, end_idx))
                IN  [ok |-> loaded.ok,
                     value |-> SubSeq(loaded.value, 1, Min(6, Len(loaded.value)))]
           ELSE [ok |-> FALSE, value |-> <<>>]

\* lines 443-445: user.get(k, '').lower() raises AttributeError when the
\* value of k is None
lower_raises(u, null_fields) ==
  /\ u # None
  /\ null_fields \cap {"area_of_interest", "skills", "qualification"} # {}

\* the text of a JSON array of the given values
list_text(values) ==
  <<"[">> \o join([k \in 1..Len(values) |-> <<values[k]>>], <<",">>) \o <<"]">>

Text(t) == [has_text |-> TRUE, text |-> t]

\* responses of the generator: arrays of up to MaxGenerated values, an array
\* of 7 postings, an array whose 7th value is not an object, arrays inside
\* prose, texts that are no array, and a response whose .text raises
ReplyTexts ==
  { list_text(v) : v \in SeqsUpTo(ValueTokens, MaxGenerated) }
  \cup { list_text(<<"C", "C", "C", "D", "D", "D", "A">>),
         list_text(<<"A", "C", "C", "D", "A", "A", "1">>),
         <<" ", "x", " ">> \o list_text(<<"A", "C">>) \o <<"x", " ">>,
         <<"[", "A", " ", ",", " ", "C", "]">>,
         <<>>,
         <<"x", "x">>,
         <<"x", "[", "A">>,
         <<"A", "]">>,
         <<"]", "x", "[">>,
         <<"[", "A", ",", "]">>,
         <<"[", "A", "C", "]">>,
         <<"[", "x", "]">>,
         list_text(<<"A">>) \o <<"x">> \o list_text(<<"C">>) }

Responses == { Text(t) : t \in ReplyTexts } \cup { [has_text |-> FALSE, text |-> <<>>] }

\* user rows: <<the fields that are not None, the keys whose value is None>>
FastUsers ==
  { <<None, {}>>,
    <<[skills |-> join(<<w_Python, w_SQL>>, <<",", " ">>)], {}>>,
    <<[skills |-> join(<<s_java, s_python>>, <<",">>), qualification |-> w_BTech,
       area_of_interest |-> w_Finance, prior_internship |-> s_yes], {}>>,
    <<[skills |-> join(<<s_java, s_python>>, <<",">>), qualification |-> w_BTech],
      {"area_of_interest", "prior_internship"}>>,
    <<[full_name |-> <<"N">>],
      {"skills", "qualification", "area_of_interest", "prior_internship"}>> }

InitFast ==
  /\ pc = "fast_called"
  /\ call = NoCall
  /\ ret = -1
  /\ recommendations = <<>>
  /\ top_recommendations = <<>>
  /\ prev = NoPrev
  /\ conc = NoConc
  /\ \E u \in FastUsers :
       /\ user = u[1]
       /\ gen = [null_fields |-> u[2], response |-> [has_text |-> FALSE, text |-> <<>>], path |-> ""]

\* lines 626-644: the prompt is built from user.get(...), which raises for
\* user None, and model.generate_content is called
FastPrompt ==
  /\ pc = "fast_called"
  /\ pc' = IF user = None THEN "fast_except" ELSE "fast_waiting"
  /\ UNCHANGED <<call, ret, user, recommendations, top_recommendations, prev, conc, gen>>

\* model.generate_content returns a response
GeneratorAnswers ==
  /\ pc = "fast_waiting"
  /\ \E r \in Responses : gen' = [gen EXCEPT !.response = r]
  /\ pc' = "fast_answered"
  /\ UNCHANGED <<call, ret, user, recommendations, top_recommendations, prev, conc>>

\* model.generate_content raises
GeneratorRaises ==
  /\ pc = "fast_waiting"
  /\ pc' = "fast_except"
  /\ UNCHANGED <<call, ret, user, recommendations, top_recommendations, prev, conc, gen>>

\* lines 645-654: the text is cut at the first '[' and the last ']', parsed,
\* and the first 6 values are ranked; a value that is no dict raises in the
\* selector at line 394
FastParse ==
  /\ pc = "fast_answered"
  /\ LET parsed == parsed_first_six(gen.response)
         objs   == [k \in 1..Len(parsed.value) |-> object_of(parsed.value[k])]
     IN  IF /\ parsed.ok
            /\ \A k \in 1..Len(parsed.value) : parsed.value[k] \in ObjectTokens
            /\ ~raises_on_entry(user)
            /\ first_raise(objs, user) = 0
         THEN /\ recommendations' = annotate(objs, user)
              /\ top_recommendations' = ranked(recommendations')
              /\ gen' = [gen EXCEPT !.path = "generated"]
              /\ pc' = "fast_returned"
         ELSE /\ pc' = "fast_except"
              /\ UNCHANGED <<recommendations, top_recommendations, gen>>
  /\ UNCHANGED <<call, ret, user, prev, conc>>

\* lines 656-658: the handler returns get_enhanced_default_recommendations(user),
\* which raises at lines 443-445 or ranks the catalog (line 620)
FastExcept ==
  /\ pc = "fast_except"
  /\ IF lower_raises(user, gen.null_fields)
     THEN /\ pc' = "fast_raised"
          /\ UNCHANGED <<recommendations, top_recommendations, gen>>
     ELSE /\ recommendations' = annotate(all_recommendations, user)
          /\ top_recommendations' = ranked(recommendations')
          /\ gen' = [gen EXCEPT !.path = "catalog"]
          /\ pc' = "fast_returned"
  /\ UNCHANGED <<call, ret, user, prev, conc>>

NextFast ==
  \/ FastPrompt
  \/ GeneratorAnswers
  \/ GeneratorRaises
  \/ FastParse
  \/ FastExcept

\* a statement of the function runs: control is at one of its own
\* statements (not inside model.generate_content) and moves on
FastRuns ==
  /\ pc \in {"fast_called", "fast_answered", "fast_except"}
  /\ pc' \in {"fast_waiting", "fast_except", "fast_returned", "fast_raised"}

\* the function's own statements keep running (FastPrompt, FastParse and
\* FastExcept are the only steps at those places and each one moves pc);
\* the call of line 637 sets no deadline, so nothing makes the generator
\* answer
SpecFast ==
  /\ InitFast
  /\ [][NextFast]_vars
  /\ WF_pc(FastRuns)

(***************************************************************************)
(* Properties.                                                             *)
(***************************************************************************)
Range(seq) == { seq[i] : i \in 1..Len(seq) }

GovIn(recs, refs) == { i \in refs : is_government(recs[i]) }
OtherIn(recs, refs) == { i \in refs : ~is_government(recs[i]) }
AllRefs == 1..Len(recommendations)

\* C1: the matcher returns a value between 0 and 100 (0..1000 tenths) for
\* every text, list and profile, and after sort_recommendations_by_match
\* every posting of the list carries a skill_match_score between 0 and 100.
C1_ScoreInRange ==
  /\ pc = "scored" => ret \in 0..1000
  /\ pc = "returned" =>
       \A i \in AllRefs :
         /\ "skill_match_score" \in DOMAIN recommendations[i]
         /\ recommendations[i]["skill_match_score"] \in 0..1000

\* a government posting whose matcher score plus the boost passes 100 and
\* is stored as 100
C1_Witness ==
  /\ pc = "returned"
  /\ \E i \in AllRefs :
       /\ is_government(recommendations[i])
       /\ match_score_of(recommendations[i], user) + 100 > 1000
       /\ recommendations[i]["skill_match_score"] = 1000

\* C2: a pool with at least 3 government and at least 3 other postings gives
\* exactly 5 entries, at least 2 government and at least 2 other.
C2_Quota ==
  (/\ pc = "returned"
   /\ Cardinality(GovIn(recommendations, AllRefs)) >= 3
   /\ Cardinality(OtherIn(recommendations, AllRefs)) >= 3)
  => /\ Len(top_recommendations) = 5
     /\ Cardinality(GovIn(recommendations, Range(top_recommendations))) >= 2
     /\ Cardinality(OtherIn(recommendations, Range(top_recommendations))) >= 2

C2_Witness ==
  /\ pc = "returned"
  /\ Cardinality(GovIn(recommendations, AllRefs)) >= 3
  /\ Cardinality(OtherIn(recommendations, AllRefs)) >= 3
  /\ Cardinality(OtherIn(recommendations, Range(top_recommendations))) = 2

\* C3: the returned list is ordered by non-increasing stored
\* skill_match_score.
C3_SortedDescending ==
  pc = "returned" =>
    \A k \in 1..(Len(top_recommendations) - 1) :
      recommendations[top_recommendations[k]]["skill_match_score"]
        >= recommendations[top_recommendations[k + 1]]["skill_match_score"]

\* a posting of the other bucket is returned ahead of a government posting
\* with a strictly lower score
C3_Witness ==
  /\ pc = "returned"
  /\ \E k, m \in 1..Len(top_recommendations) :
       /\ k < m
       /\ ~is_government(recommendations[top_recommendations[k]])
       /\ is_government(recommendations[top_recommendations[m]])
       /\ recommendations[top_recommendations[k]]["skill_match_score"]
            > recommendations[top_recommendations[m]]["skill_match_score"]

\* C4: at most 5 entries, each one of the input candidates, none twice, and
\* an empty list gives an empty result.
C4_AtMostFiveDistinct ==
  pc = "returned" =>
    /\ Len(top_recommendations) <= 5
    /\ Range(top_recommendations) \subseteq AllRefs
    /\ Cardinality(Range(top_recommendations)) = Len(top_recommendations)
    /\ recommendations = <<>> => top_recommendations = <<>>

\* the government overflow step ran: more than 3 government postings returned
C4_Witness ==
  /\ pc = "returned"
  /\ Cardinality(GovIn(recommendations, Range(top_recommendations))) > 3
  /\ Len(top_recommendations) = 5

\* the user skill tokens of a text and the skills of a required list, trimmed
\* and lower-cased, empty ones dropped
UserTokens(text) == { lower(strip(t)) : t \in Range(split(text, ",")) } \ {<<>>}
ReqSkills(lst) == { lower(strip(r)) : r \in Range(lst) } \ {<<>>}

\* C5: empty text, text with no token, empty list or list with no skill gives
\* 0, whatever the profile.
C5_EmptyGivesZero ==
  (/\ pc = "scored"
   /\ \/ call.user_skills_string = <<>>
      \/ UserTokens(call.user_skills_string) = {}
      \/ call.required_skills_list = <<>>
      \/ ReqSkills(call.required_skills_list) = {})
  => ret = 0

\* a profile with all three bonuses, a non-empty text and a list of blank
\* skills only
C5_Witness ==
  /\ pc = "scored"
  /\ ret = 0
  /\ bonus_points(call.user_profile) = 15
  /\ UserTokens(call.user_skills_string) # {}
  /\ call.required_skills_list # <<>>
  /\ ReqSkills(call.required_skills_list) = {}

\* the normalized sides of the current matcher call
CallUserSkills == normalize(split(call.user_skills_string, ","))
CallRequired   == normalize(call.required_skills_list)

\* C6: when every required skill, trimmed and lower-cased, equals some user
\* skill token (and there is at least one required skill), the matcher
\* returns 100.0 for every profile, every order and whatever other user
\* skills are present.
C6_ExactMatchIs100 ==
  (/\ pc = "scored"
   /\ ReqSkills(call.required_skills_list) # {}
   /\ ReqSkills(call.required_skills_list) \subseteq UserTokens(call.user_skills_string))
  => ret = 1000

\* the exactly matching user skill comes after a user skill that is a
\* synonym of the same required skill
C6_Witness ==
  /\ pc = "scored"
  /\ ret = 1000
  /\ call.user_profile = None
  /\ ReqSkills(call.required_skills_list) = {s_javascript}
  /\ CallUserSkills = <<s_js, s_javascript>>

\* the synonym relation of the table, in either direction
SynonymPair(u, r) ==
  \E e \in 1..Len(skill_variations) :
    \/ r = skill_variations[e][1] /\ u \in Range(skill_variations[e][2])
    \/ u = skill_variations[e][1] /\ r \in Range(skill_variations[e][2])

SiblingVariants(u, r) ==
  /\ u # r
  /\ \E e \in 1..Len(skill_variations) :
       u \in Range(skill_variations[e][2]) /\ r \in Range(skill_variations[e][2])

\* C7: one user skill and one required skill that are a synonym pair of the
\* table, in either direction, with no profile, give 95.0; two variants of
\* one canonical term are not a synonym pair and do not give 95.0.
C7_SynonymIs95 ==
  (/\ pc = "scored"
   /\ call.user_profile = None
   /\ call.user_skills_string \in TableStrings
   /\ Len(call.required_skills_list) = 1
   /\ call.required_skills_list[1] \in TableStrings)
  => LET u == call.user_skills_string
         r == call.required_skills_list[1]
     IN  /\ SynonymPair(u, r) => ret = 950
         /\ SiblingVariants(u, r) => ret # 950

\* the user skill is the canonical term and the required skill its variant
C7_Witness ==
  /\ pc = "scored"
  /\ ret = 950
  /\ call.user_profile = None
  /\ call.user_skills_string = s_machine_learning
  /\ call.required_skills_list = <<s_deep_learning>>

\* which bonuses a profile qualifies for
QualificationApplies(p) ==
  /\ p # None
  /\ "qualification" \in DOMAIN p
  /\ \E kw \in Range(edu_keywords) : contains(lower(p["qualification"]), kw)

InterestApplies(p) ==
  /\ p # None
  /\ "area_of_interest" \in DOMAIN p
  /\ \E kw \in Range(job_sectors) : contains(lower(p["area_of_interest"]), kw)

InternshipApplies(p) ==
  /\ p # None
  /\ "prior_internship" \in DOMAIN p
  /\ p["prior_internship"] = s_yes

Applicable(p) ==
  {b \in {"qualification", "area_of_interest", "prior_internship"} :
     \/ b = "qualification" /\ QualificationApplies(p)
     \/ b = "area_of_interest" /\ InterestApplies(p)
     \/ b = "prior_internship" /\ InternshipApplies(p)}

\* a value of each field that earns its bonus, and the profile p changed
\* (or given the field) so that bonus b applies as well
Qualifying ==
  [qualification |-> w_BTech, area_of_interest |-> w_Finance, prior_internship |-> s_yes]

WithBonus(p, b) ==
  IF p = None THEN (b :> Qualifying[b]) ELSE (b :> Qualifying[b]) @@ p

BonusSum(p) ==
  (IF QualificationApplies(p) THEN 5 ELSE 0)
  + (IF InterestApplies(p) THEN 3 ELSE 0)
  + (IF InternshipApplies(p) THEN 7 ELSE 0)

\* C8: a profile to which one more bonus applies never gets a lower value,
\* and, where the base percentage is defined (both normalized sides are
\* non-empty), the value is min(100, base + 5/3/7 for the applicable
\* bonuses) rounded to one decimal.
C8_BonusMonotone ==
  pc = "scored" =>
    /\ \A b \in DOMAIN Qualifying \ Applicable(call.user_profile) :
         LET q == WithBonus(call.user_profile, b)
         IN  /\ Applicable(q) = Applicable(call.user_profile) \cup {b}
             /\ ret <= calculate_skill_match_score(call.user_skills_string,
                                                   call.required_skills_list, q)
    /\ (CallUserSkills # <<>> /\ CallRequired # <<>>) =>
         LET base  == percentage(CallUserSkills, CallRequired)
             total == <<base[1] + BonusSum(call.user_profile) * base[2], base[2]>>
         IN  ret = IF total[1] > 100 * total[2] THEN 1000 ELSE round_1(total)

\* all three bonuses are added to a base of 50 and nothing is capped
C8_Witness ==
  /\ pc = "scored"
  /\ BonusSum(call.user_profile) = 15
  /\ CallUserSkills # <<>> /\ CallRequired # <<>>
  /\ percentage(CallUserSkills, CallRequired) = <<50, 1>>
  /\ ret = 650

\* C9: a second call on the same list and profile, given the very dicts the
\* first call annotated, returns the same postings in the same order with
\* the same scores.
C9_SameResultTwice ==
  (pc = "returned" /\ prev.calls >= 2)
  => /\ top_recommendations = prev.top
     /\ recommendations = prev.recs

\* the list holds a government posting whose boosted score is below the cap
C9_Witness ==
  /\ pc = "returned"
  /\ prev.calls = 2
  /\ \E k \in 1..Len(top_recommendations) :
       /\ is_government(recommendations[top_recommendations[k]])
       /\ recommendations[top_recommendations[k]]["skill_match_score"] \in 101..999

\* the posting with an empty required-skills list in place of a missing one
WithSkills(rec) == IF "skills" \in DOMAIN rec THEN rec ELSE ("skills" :> <<>>) @@ rec

\* the profile with empty values in place of its missing fields
WithFields(u) ==
  IF u = None THEN u
  ELSE [k \in DOMAIN u \cup {"skills", "qualification", "area_of_interest", "prior_internship"}
          |-> IF k \in DOMAIN u THEN u[k] ELSE <<>>]

Malformed(recs) == { i \in 1..Len(recs) : "skills" \notin DOMAIN recs[i] }

\* C10: the call never raises; a posting without a required-skills field
\* gets matcher score 0 (stored as 0, or as the boost alone for a government
\* posting); scores and ranking are those of the list with [] in place of
\* each missing field and of the profile with '' in place of its missing
\* fields.
C10_MalformedScoresZero ==
  /\ pc # "raised"
  /\ pc = "returned" =>
       LET filled == [i \in AllRefs |-> WithSkills(recommendations[i])]
           scored == SubSeq(annotate(filled, WithFields(user)), 1, Len(filled))
       IN  /\ \A i \in Malformed(recommendations) :
                recommendations[i]["skill_match_score"]
                  = IF is_government(recommendations[i]) THEN 100 ELSE 0
           /\ \A i \in AllRefs :
                recommendations[i]["skill_match_score"] = scored[i]["skill_match_score"]
           /\ top_recommendations = ranked(scored)

\* a malformed government posting is returned next to postings with a
\* non-zero matcher score, for a profile that has only the skills field
C10_Witness ==
  /\ pc = "returned"
  /\ user # None
  /\ DOMAIN user = {"skills"}
  /\ \E k \in 1..Len(top_recommendations) :
       /\ top_recommendations[k] \in Malformed(recommendations)
       /\ is_government(recommendations[top_recommendations[k]])
  /\ \E k \in 1..Len(top_recommendations) :
       match_score_of(recommendations[top_recommendations[k]], user) > 0

\* the posting dicts a result refers to, in order
Output(recs, top) == [k \in 1..Len(top) |-> recs[top[k]]]

\* C11: interleaved calls, each with its own list and profile: every call
\* that has finished holds exactly the postings, order and scores that the
\* call returns when it runs alone on its input.
C11_ConcurrentCallsIndependent ==
  pc = "concurrent" =>
    \A t \in 1..ConcCalls :
      conc.calls[t].at = "done" =>
        LET c     == conc.calls[t]
            alone == SubSeq(annotate(c.input, c.user), 1, Len(c.input))
        IN  /\ c.top = ranked(alone)
            /\ Output(conc.lists[t], c.top) = Output(alone, ranked(alone))
            /\ conc.lists[t] = alone

\* two finished calls with different profiles and different two-element lists
C11_Witness ==
  /\ pc = "concurrent"
  /\ \A t \in 1..ConcCalls : conc.calls[t].at = "done"
  /\ conc.calls[1].user # conc.calls[2].user
  /\ conc.calls[1].input # conc.calls[2].input
  /\ Len(conc.calls[1].top) = 2
  /\ Len(conc.calls[2].top) = 2

\* a posting dict without its skill_match_score key
Display(rec) == [k \in DOMAIN rec \ {"skill_match_score"} |-> rec[k]]

\* C12: a call changes nothing in its inputs except skill_match_score: the
\* list keeps its length and order, every other field of every posting and
\* the profile are unchanged, and every input posting, selected or not,
\* carries a skill_match_score afterwards.
C12_OnlyScoreFieldChanges ==
  [][(prev'.calls = prev.calls + 1 /\ pc' = "returned") =>
       /\ user' = user
       /\ Len(recommendations') = Len(recommendations)
       /\ \A i \in 1..Len(recommendations) :
            /\ Display(recommendations'[i]) = Display(recommendations[i])
            /\ "skill_match_score" \in DOMAIN recommendations'[i]]_vars

\* six postings went in, five came back, and the posting left out (the one
\* with the lowest score, at the head of the list) is annotated and still
\* at the head
C12_Witness ==
  /\ pc = "returned"
  /\ Len(recommendations) = 6
  /\ Len(top_recommendations) = 5
  /\ 1 \notin Range(top_recommendations)
  /\ "skill_match_score" \in DOMAIN recommendations[1]
  /\ Display(recommendations[1]) = prev.recs[1]
  /\ \E i \in 2..6 : recommendations[i]["skill_match_score"]
                          > recommendations[1]["skill_match_score"]

\* the value of the three rules for one user skill and one required skill,
\* none short-circuiting another
RuleMax(u, r) ==
  LET sim  == ratio(u, r)
      v1   == IF frac_gt(sim, <<4, 5>>) THEN sim ELSE <<0, 1>>
      v2   == IF contains(u, r) \/ contains(r, u) THEN <<9, 10>> ELSE <<0, 1>>
      v3   == IF SynonymPair(u, r) THEN <<19, 20>> ELSE <<0, 1>>
  IN  frac_max(frac_max(v1, v2), v3)

RECURSIVE RuleMaxOver(_, _, _)
RuleMaxOver(users, r, k) ==
  IF k > Len(users) THEN <<0, 1>>
  ELSE frac_max(RuleMax(users[k], r), RuleMaxOver(users, r, k + 1))

PerSkill(users, r) == IF In(r, users) THEN <<1, 1>> ELSE RuleMaxOver(users, r, 1)

RECURSIVE PerSkillSum(_, _)
PerSkillSum(users, reqs) ==
  IF reqs = <<>> THEN <<0, 1>>
  ELSE frac_add(PerSkill(users, Head(reqs)), PerSkillSum(users, Tail(reqs)))

\* C13: without an exact match the per-skill score is the maximum over the
\* user skills of the maximum of the three rule values, so a substring
\* relation gives at least 0.9 whatever the similarity ratio: the returned
\* value is the one computed from these per-skill scores.
C13_MaxOfAllRules ==
  (pc = "scored" /\ CallUserSkills # <<>> /\ CallRequired # <<>>) =>
    LET sum   == PerSkillSum(CallUserSkills, CallRequired)
        base  == frac(100 * sum[1], sum[2] * Len(CallRequired))
        total == <<base[1] + BonusSum(call.user_profile) * base[2], base[2]>>
    IN  ret = IF total[1] > 100 * total[2] THEN 1000 ELSE round_1(total)

NumGov   == Cardinality(GovIn(recommendations, AllRefs))
NumOther == Cardinality(OtherIn(recommendations, AllRefs))

\* C14: after the government overflow, leftover postings of the other
\* bucket fill the result up to 5, so a pool of N candidates gives
\* min(5, N) entries.
C14_FillsUpToFive ==
  pc = "returned" => Len(top_recommendations) = Min(5, Len(recommendations))

\* C15 as claimed: with no profile every posting ends with score 0 and the
\* result is in input order.
C15_NoProfileAllZero ==
  (pc = "returned" /\ user = None) =>
    /\ \A i \in AllRefs : recommendations[i]["skill_match_score"] = 0
    /\ \A k, m \in 1..Len(top_recommendations) :
         k < m => top_recommendations[k] < top_recommendations[m]

\* C15 (amended): with no profile the matcher score of every posting is 0;
\* the stored score is 0 for a posting that is not government and 10, the
\* boost alone, for a government posting; the result lists the selected
\* government postings first and then the others, each group in input
\* order and each group a prefix of its bucket in input order.
C15_NoProfileBoostOnly ==
  (pc = "returned" /\ user = None) =>
    /\ \A i \in AllRefs :
         /\ match_score_of(recommendations[i], user) = 0
         /\ recommendations[i]["skill_match_score"]
              = IF Get(recommendations[i], "type", <<>>) = s_government THEN 100 ELSE 0
    /\ \A k, m \in 1..Len(top_recommendations) :
         k < m =>
           LET a == top_recommendations[k]
               b == top_recommendations[m]
           IN  \/ is_government(recommendations[a]) /\ ~is_government(recommendations[b])
               \/ /\ is_government(recommendations[a]) = is_government(recommendations[b])
                  /\ a < b
    /\ \A i, j \in AllRefs :
         (/\ i < j
          /\ is_government(recommendations[i]) = is_government(recommendations[j])
          /\ j \in Range(top_recommendations))
         => i \in Range(top_recommendations)

\* no profile, government postings after other postings in the input, and
\* more postings in each bucket than are returned from it
C15_Witness ==
  /\ pc = "returned"
  /\ user = None
  /\ NumGov = 2
  /\ NumOther = 4
  /\ ~is_government(recommendations[1])
  /\ Len(top_recommendations) = 5
  /\ is_government(recommendations[top_recommendations[1]])

\* the value the claim of C16 gives for the stored score of rec
Expected(rec) ==
  IF "type" \in DOMAIN rec /\ rec["type"] = s_government
  THEN Min(1000, match_score_of(rec, user) + 100)
  ELSE match_score_of(rec, user)

\* C16: after the call the stored skill_match_score of a posting whose type
\* is government is min(100, matcher score + 10) and that of any other
\* posting, with or without a type, is the matcher score; the boosted
\* values order the result and decide which postings of a bucket are taken.
C16_CategoryBoost ==
  pc = "returned" =>
    /\ \A i \in AllRefs : recommendations[i]["skill_match_score"] = Expected(recommendations[i])
    /\ \A k, m \in 1..Len(top_recommendations) :
         k < m => Expected(recommendations[top_recommendations[k]])
                    >= Expected(recommendations[top_recommendations[m]])
    /\ \A i, j \in AllRefs :
         (/\ i \notin Range(top_recommendations)
          /\ j \in Range(top_recommendations)
          /\ ("type" \in DOMAIN recommendations[i] /\ recommendations[i]["type"] = s_government)
               = ("type" \in DOMAIN recommendations[j] /\ recommendations[j]["type"] = s_government))
         => Expected(recommendations[i]) <= Expected(recommendations[j])

\* a government posting at the cap, one boosted below the cap, a posting of
\* another type with a positive score and a posting with no type; a
\* boosted posting is returned ahead of a posting with the same matcher score
C16_Witness ==
  /\ pc = "returned"
  /\ \E i \in AllRefs : /\ is_government(recommendations[i])
                        /\ match_score_of(recommendations[i], user) > 900
                        /\ recommendations[i]["skill_match_score"] = 1000
  /\ \E i \in AllRefs : /\ is_government(recommendations[i])
                        /\ recommendations[i]["skill_match_score"] < 1000
                        /\ recommendations[i]["skill_match_score"]
                             = match_score_of(recommendations[i], user) + 100
  /\ \E i \in AllRefs : /\ "type" \in DOMAIN recommendations[i]
                        /\ ~is_government(recommendations[i])
                        /\ recommendations[i]["skill_match_score"] > 0
  /\ \E i \in AllRefs : "type" \notin DOMAIN recommendations[i]
  /\ \E k, m \in 1..Len(top_recommendations) :
       /\ k < m
       /\ top_recommendations[k] > top_recommendations[m]
       /\ is_government(recommendations[top_recommendations[k]])
       /\ ~is_government(recommendations[top_recommendations[m]])
       /\ match_score_of(recommendations[top_recommendations[k]], user)
            = match_score_of(recommendations[top_recommendations[m]], user)

\* the position of reference i in the returned list
PosInTop(i) == CHOOSE k \in 1..Len(top_recommendations) : top_recommendations[k] = i

\* two postings of the same bucket with the same stored score, i before j
TiedPair(i, j) ==
  /\ i < j
  /\ is_government(recommendations[i]) = is_government(recommendations[j])
  /\ recommendations[i]["skill_match_score"] = recommendations[j]["skill_match_score"]

\* C17: of two postings of one bucket with equal score, the later one in
\* the input is returned only if the earlier one is, and when both are
\* returned the earlier one comes first.
C17_StableTieBreak ==
  pc = "returned" =>
    \A i, j \in AllRefs :
      (TiedPair(i, j) /\ j \in Range(top_recommendations))
      => /\ i \in Range(top_recommendations)
         /\ PosInTop(i) < PosInTop(j)

\* the quota of the other bucket cuts between two postings of equal score,
\* and two returned government postings have equal score
C17_Witness ==
  /\ pc = "returned"
  /\ \E i, j \in AllRefs :
       /\ TiedPair(i, j) /\ ~is_government(recommendations[i])
       /\ i \in Range(top_recommendations) /\ j \notin Range(top_recommendations)
  /\ \E i, j \in AllRefs :
       /\ TiedPair(i, j) /\ is_government(recommendations[i])
       /\ i \in Range(top_recommendations) /\ j \in Range(top_recommendations)

\* the score stored on the posting that reference i names
ScoreAt(i) == recommendations[i]["skill_match_score"]

TopGov   == GovIn(recommendations, Range(top_recommendations))
TopOther == OtherIn(recommendations, Range(top_recommendations))

\* C18: no government posting left out has a strictly higher score than a
\* returned government posting, no other posting left out has a strictly
\* higher score than a returned other posting; at least min(3, G)
\* government postings and at most 3 other postings are returned.
C18_BestOfEachBucket ==
  pc = "returned" =>
    /\ \A i \in GovIn(recommendations, AllRefs) \ TopGov :
         \A j \in TopGov : ScoreAt(i) <= ScoreAt(j)
    /\ \A i \in OtherIn(recommendations, AllRefs) \ TopOther :
         \A j \in TopOther : ScoreAt(i) <= ScoreAt(j)
    /\ Cardinality(TopGov) >= Min(3, NumGov)
    /\ Cardinality(TopOther) <= 3

\* three other postings are returned and an other posting is left out with
\* a strictly lower score than a returned other posting that comes later in
\* the input
C18_Witness ==
  /\ pc = "returned"
  /\ \E i \in OtherIn(recommendations, AllRefs) \ TopOther :
       \E j \in TopOther : i < j /\ ScoreAt(i) < ScoreAt(j)
  /\ Cardinality(TopOther) = 3

\* a government posting is left out with a strictly lower score than a
\* returned government posting that comes later in the input
C18_WitnessGov ==
  /\ pc = "returned"
  /\ \E i \in GovIn(recommendations, AllRefs) \ TopGov :
       \E j \in TopGov : i < j /\ ScoreAt(i) < ScoreAt(j)

\* C19: the result has exactly min(5, G + min(3, O)) entries; with at least
\* 5 candidates it has fewer than 5 only when a category has fewer than 2
\* candidates, and when there are fewer than 3 other candidates the
\* government postings fill the remaining places.
C19_UnderFillBoundary ==
  pc = "returned" =>
    /\ Len(top_recommendations) = Min(5, NumGov + Min(3, NumOther))
    /\ (Len(recommendations) >= 5 /\ Len(top_recommendations) < 5)
         => (NumGov < 2 \/ NumOther < 2)
    /\ NumOther < 3
         => /\ Cardinality(TopOther) = NumOther
            /\ Cardinality(TopGov) = Min(NumGov, 5 - NumOther)

\* five candidates or more, one government posting: four entries
C19_Witness ==
  /\ pc = "returned"
  /\ Len(recommendations) >= 5
  /\ NumGov = 1
  /\ Len(top_recommendations) = 4

\* five candidates or more, one other posting: four government postings fill
C19_WitnessOverflow ==
  /\ pc = "returned"
  /\ NumOther = 1
  /\ NumGov >= 5
  /\ Cardinality(TopGov) = 4

\* C20: sort_recommendations_by_match applied to its own result with the
\* same profile returns the same postings in the same order with the same
\* skill_match_score values.
C20_RerankIdempotent ==
  pc = "reranked" =>
    returned_list(recommendations, top_recommendations) = returned_list(prev.recs, prev.top)

\* the list ranked a second time holds a government posting boosted below
\* the cap, government postings of equal score and a posting of the other
\* bucket
C20_Witness ==
  /\ pc = "reranked"
  /\ Len(top_recommendations) = 5
  /\ \E i \in AllRefs : /\ is_government(recommendations[i])
                        /\ ScoreAt(i) > 100 /\ ScoreAt(i) < 1000
  /\ \E i, j \in AllRefs : TiedPair(i, j) /\ is_government(recommendations[i])
  /\ \E i \in AllRefs : ~is_government(recommendations[i]) /\ ScoreAt(i) > 0

\* the postings the generator supplied, when its response parses to a list
\* of postings: the first 6 of them
Generated ==
  LET parsed == parsed_first_six(gen.response)
  IN  IF parsed.ok /\ \A k \in 1..Len(parsed.value) : parsed.value[k] \in ObjectTokens
      THEN [ok |-> TRUE, recs |-> [k \in 1..Len(parsed.value) |-> object_of(parsed.value[k])]]
      ELSE [ok |-> FALSE, recs |-> <<>>]

\* the list the claim of C21 has the call return
ClaimedResult ==
  LET recs == annotate(IF Generated.ok THEN Generated.recs ELSE all_recommendations, user)
  IN  returned_list(recs, ranked(recs))

\* the call never raises
C21_NoErrorEscapes == pc # "fast_raised"

\* once the generator has returned a response the call finishes: it returns
\* or raises
C21_FinishesOnceAnswered ==
  (pc = "fast_answered") ~> (pc \in {"fast_returned", "fast_raised"})

\* C21: generate_recommendations_fast never raises and always eventually
\* returns a list of at most 5 postings: the ranking of the first 6
\* generated postings when the generator answered with a list of postings,
\* the ranked static catalog when it raised, answered with anything else or
\* did not answer.
C21_AlwaysReturnsRanking ==
  /\ [](pc # "fast_raised")
  /\ [](pc = "fast_returned" =>
          /\ Len(top_recommendations) <= 5
          /\ returned_list(recommendations, top_recommendations) = ClaimedResult)
  /\ <>(pc = "fast_returned")
====
